---- MODULE Spec2Model ----
(***************************************************************************)
(* Model of the function-analysis engine: Database (tables training and    *)
(* ideal), BaseProcessor.clean_data, FunctionSelector.process,             *)
(* TestProcessor.process / _match_point and the pipeline                   *)
(* SimpleFunctionAnalysis.run_analysis.                                    *)
(*                                                                         *)
(* Spec calls the operations in any order; SpecClean applies clean_data to *)
(* frames on its own; SpecRun is one run of run_analysis.                  *)
(*                                                                         *)
(* Numbers are small non-negative integers.  A comparison against          *)
(* sqrt(2) * d is made on the squares (a <= sqrt(2)*d  <=>  a*a <= 2*d*d   *)
(* for a, d >= 0), which is exact on the integers.                         *)
(***************************************************************************)
EXTENDS Integers, Sequences, FiniteSets, TLC

\* ---------------------------------------------------------------- bounds
\* Candidate identifiers scanned by the selector: range(1, 51) in the code,
\* scaled down to 1..NumIdeal.
NumIdeal == 3
\* Test observations take their y in 0..MaxVal.
MaxVal == 2

\* ------------------------------------------------------- special values
\* A missing value (pandas NaN): what dropna() removes.
NaN == -1
\* A cell of a non-numeric (object dtype) column: arithmetic on it raises.
Str == -2
\* Python None / a falsy best_ideal.
None == 0
\* float('inf').
Inf == -3

\* f'y{i}'
YName(i) == "y" \o ToString(i)

TrainCols == <<"y1", "y2", "y3", "y4">>

Abs(a) == IF a < 0 THEN -a ELSE a

\* abs(a - b) on floats: NaN propagates.
AbsDiff(a, b) == IF a = NaN \/ b = NaN THEN NaN ELSE Abs(a - b)

\* ------------------------------------------------------------ DataFrames
\* A stored table or CSV file: [columns |-> set of names, data |-> sequence
\* of rows], a row being a function from the column names to cells.
\* A DataFrame: [columns, rows], rows a sequence of [idx |-> index label,
\* cells |-> row].  pd.read_csv and pd.read_sql give the RangeIndex 0..n-1.
ReadFrame(table) ==
    [columns |-> table.columns,
     rows |-> [i \in 1..Len(table.data) |-> [idx |-> i - 1, cells |-> table.data[i]]]]

HasNa(row) == \E c \in DOMAIN row.cells : row.cells[c] = NaN

\* Variant: no row is dropped for a missing value.
DropNaNone(df) == df

\* df.dropna(): the rows with no missing value, order and labels kept.
DropNa(df) ==
    [columns |-> df.columns, rows |-> SelectSeq(df.rows, LAMBDA r : ~HasNa(r))]

RECURSIVE KeepFirst(_, _)
KeepFirst(rows, kept) ==
    IF rows = <<>> THEN kept
    ELSE LET r == Head(rows)
             dup == \E k \in 1..Len(kept) : kept[k].cells = r.cells
         IN KeepFirst(Tail(rows), IF dup THEN kept ELSE Append(kept, r))

\* Variant: repeated rows are kept.
DropDuplicatesNone(df) == df

\* Variant: the last occurrence of every row is the one kept.
DropDuplicatesKeepLast(df) ==
    [columns |-> df.columns,
     rows |-> SelectSeq(df.rows,
                  LAMBDA r : \A k \in 1..Len(df.rows) :
                      df.rows[k].cells = r.cells => df.rows[k].idx <= r.idx)]

\* df.drop_duplicates(): the first occurrence of every row, labels kept.
DropDuplicates(df) ==
    [columns |-> df.columns, rows |-> KeepFirst(df.rows, <<>>)]

\* BaseProcessor.clean_data
clean_data(df) == DropDuplicates(DropNa(df))

\* The index labels of a frame.
Labels(df) == {df.rows[k].idx : k \in 1..Len(df.rows)}

\* df.loc[label, col]
Loc(df, label, col) ==
    LET k == CHOOSE k \in 1..Len(df.rows) : df.rows[k].idx = label
    IN df.rows[k].cells[col]

\* ---------------------------------------------------------------- selector
\* training[train_col] - ideal[ideal_col] raises TypeError when the training
\* column holds strings.
SubRaises(training, train_col) ==
    \E k \in 1..Len(training.rows) : training.rows[k].cells[train_col] = Str

\* The sum of (training[train_col] - ideal[ideal_col]) ** 2 over a set of
\* index labels.
RECURSIVE SumSquares(_, _, _, _, _)
SumSquares(training, ideal, train_col, ideal_col, labels) ==
    IF labels = {} THEN 0
    ELSE LET l == CHOOSE l \in labels : TRUE
             d == Loc(training, l, train_col) - Loc(ideal, l, ideal_col)
         IN d * d + SumSquares(training, ideal, train_col, ideal_col, labels \ {l})

\* np.sum((training[train_col] - ideal[ideal_col]) ** 2): the two Series are
\* aligned on their index labels; a label of only one of them gives NaN,
\* which the sum skips.
SquaredError(training, ideal, train_col, ideal_col) ==
    SumSquares(training, ideal, train_col, ideal_col,
               Labels(training) \cap Labels(ideal))

\* error < best_error
ErrLess(error, best_error) == best_error = Inf \/ error < best_error

\* The assignment to best_error made when a candidate improves on the best.
NewBestError(error, best_error) == best_error

\* The scan `for i in range(1, 51)` for one training column, from candidate i
\* on.  [raised, best_error, best_ideal]
RECURSIVE ScanIdeal(_, _, _, _, _, _)
ScanIdeal(training, ideal, train_col, i, best_error, best_ideal) ==
    IF i > NumIdeal
    THEN [raised |-> FALSE, best_error |-> best_error, best_ideal |-> best_ideal]
    ELSE IF YName(i) \in ideal.columns
    THEN IF SubRaises(training, train_col)
         THEN [raised |-> TRUE, best_error |-> best_error, best_ideal |-> best_ideal]
         ELSE LET error == SquaredError(training, ideal, train_col, YName(i))
              IN IF ErrLess(error, best_error)
                 THEN ScanIdeal(training, ideal, train_col, i + 1,
                                NewBestError(error, best_error), i)
                 ELSE ScanIdeal(training, ideal, train_col, i + 1,
                                best_error, best_ideal)
    ELSE ScanIdeal(training, ideal, train_col, i + 1, best_error, best_ideal)

\* A dict as a sequence of <<key, value>> in insertion order.
DictKeys(d) == {d[k][1] : k \in 1..Len(d)}
DictGet(d, key) == (CHOOSE k \in 1..Len(d) : d[k][1] = key)
DictValue(d, key) == d[DictGet(d, key)][2]
\* d[key] = value: a key already present keeps its position.
DictSet(d, key, value) ==
    IF key \in DictKeys(d)
    THEN [d EXCEPT ![DictGet(d, key)] = <<key, value>>]
    ELSE Append(d, <<key, value>>)

\* Variant: candidate 1 taken as "no candidate" (a zero-based identifier).
TruthyAboveOne(best_ideal) == best_ideal > 1

\* `if best_ideal:`
Truthy(best_ideal) == best_ideal # None

\* The loop `for train_col in ['y1', 'y2', 'y3', 'y4']` from the k-th column
\* on, with self.selected = sel.  [raised, selected]
RECURSIVE SelectLoop(_, _, _, _)
SelectLoop(training, ideal, k, sel) ==
    IF k > Len(TrainCols) THEN [raised |-> FALSE, selected |-> sel]
    ELSE LET scan == ScanIdeal(training, ideal, TrainCols[k], 1, Inf, None)
         IN IF scan.raised THEN [raised |-> TRUE, selected |-> sel]
            ELSE SelectLoop(training, ideal, k + 1,
                            IF Truthy(scan.best_ideal)
                            THEN DictSet(sel, TrainCols[k], scan.best_ideal)
                            ELSE sel)

\* len(self.selected) != 4
WrongCount(sel) == Len(sel) # 4

\* FunctionSelector.process on the stored tables, with self.selected = sel.
\* [error, selected, value]: the exception raised ("none" when it returns),
\* self.selected afterwards and the value returned.
SelectorOutcome(training_table, ideal_table, sel) ==
    LET training == clean_data(ReadFrame(training_table))
        ideal == clean_data(ReadFrame(ideal_table))
        loop == SelectLoop(training, ideal, 1, sel)
    IN IF loop.raised \/ WrongCount(loop.selected)
       THEN [error |-> "SelectionError", selected |-> loop.selected, value |-> <<>>]
       ELSE [error |-> "none", selected |-> loop.selected, value |-> loop.selected]

\* ------------------------------------------------------------------ tester
\* np.abs(df['x'] - test_x).idxmin(): the label of the first row whose x is
\* nearest to test_x, missing values skipped.  It raises when there is no
\* such row (an empty frame, or test_x or every x missing).
NearRows(df, test_x) ==
    {k \in 1..Len(df.rows) : AbsDiff(df.rows[k].cells["x"], test_x) # NaN}

IdxMinRaises(df, test_x) == NearRows(df, test_x) = {}

IdxMin(df, test_x) ==
    LET D(k) == AbsDiff(df.rows[k].cells["x"], test_x)
        k == CHOOSE k \in NearRows(df, test_x) :
                 \A j \in NearRows(df, test_x) : D(k) < D(j) \/ (D(k) = D(j) /\ k <= j)
    IN df.rows[k].idx

\* Variant: a strict comparison against the threshold.
WithinToleranceStrict(deviation, train_deviation) ==
    /\ deviation # NaN
    /\ train_deviation # NaN
    /\ deviation * deviation < 2 * train_deviation * train_deviation

\* Variant: the threshold divided by sqrt(2) instead of multiplied.
WithinToleranceDivided(deviation, train_deviation) ==
    /\ deviation # NaN
    /\ train_deviation # NaN
    /\ 2 * deviation * deviation <= train_deviation * train_deviation

\* deviation <= max_deviation, with max_deviation = np.sqrt(2) * train_deviation
\* (a comparison with NaN is False).
WithinTolerance(deviation, train_deviation) ==
    /\ deviation # NaN
    /\ train_deviation # NaN
    /\ deviation * deviation <= 2 * train_deviation * train_deviation

\* Variant: a later pair of equal deviation replaces the best match.
DevLessOrEqual(deviation, min_deviation) ==
    deviation # NaN /\ (min_deviation = Inf \/ deviation <= min_deviation)

\* deviation < min_deviation
DevLess(deviation, min_deviation) ==
    deviation # NaN /\ (min_deviation = Inf \/ deviation < min_deviation)

\* The body of the loop `for train_func, ideal_idx in selected.items()` for
\* one pair: whether it raises, and the values of its local variables.
PairRaises(test_x, pair, training, ideal) ==
    \/ IdxMinRaises(ideal, test_x)
    \/ YName(pair[2]) \notin ideal.columns
    \/ IdxMinRaises(training, test_x)
    \/ Loc(training, IdxMin(training, test_x), pair[1]) = Str

PairLocals(test_x, test_y, pair, training, ideal) ==
    LET ideal_col == YName(pair[2])
        ideal_y == Loc(ideal, IdxMin(ideal, test_x), ideal_col)
        train_y == Loc(training, IdxMin(training, test_x), pair[1])
    IN [train_func |-> pair[1],
        ideal_col |-> ideal_col,
        deviation |-> AbsDiff(test_y, ideal_y),
        train_deviation |-> AbsDiff(train_y, ideal_y)]

\* TestProcessor._match_point from the k-th entry of selected on.
\* [raised, best_match, log]: best_match is <<>> for None and <<record>>
\* otherwise; log lists the local values of every pair processed.
RECURSIVE MatchLoop(_, _, _, _, _, _, _, _)
MatchLoop(test_row, selected_, training, ideal, k, best_match, min_deviation, log) ==
    IF k > Len(selected_)
    THEN [raised |-> FALSE, best_match |-> best_match, log |-> log]
    ELSE LET test_x == test_row["x"]
             test_y == test_row["y"]
         IN IF PairRaises(test_x, selected_[k], training, ideal)
            THEN [raised |-> TRUE, best_match |-> <<>>, log |-> <<>>]
            ELSE LET loc == PairLocals(test_x, test_y, selected_[k], training, ideal)
                 IN IF /\ WithinTolerance(loc.deviation, loc.train_deviation)
                       /\ DevLess(loc.deviation, min_deviation)
                    THEN MatchLoop(test_row, selected_, training, ideal, k + 1,
                                   <<[x |-> test_x, y |-> test_y,
                                      ideal_function |-> loc.ideal_col,
                                      deviation |-> loc.deviation]>>,
                                   loc.deviation, Append(log, loc))
                    ELSE MatchLoop(test_row, selected_, training, ideal, k + 1,
                                   best_match, min_deviation, Append(log, loc))

match_point(test_row, selected_, training, ideal) ==
    MatchLoop(test_row, selected_, training, ideal, 1, <<>>, Inf, <<>>)

\* The loop `for _, test_row in test_df.iterrows()` from the k-th row on.
RECURSIVE RowLoop(_, _, _, _, _, _, _)
RowLoop(test_df, selected_, training, ideal, k, results_, logs) ==
    IF k > Len(test_df.rows)
    THEN [raised |-> FALSE, results |-> results_, logs |-> logs]
    ELSE LET m == match_point(test_df.rows[k].cells, selected_, training, ideal)
         IN IF m.raised THEN [raised |-> TRUE, results |-> <<>>, logs |-> <<>>]
            ELSE RowLoop(test_df, selected_, training, ideal, k + 1,
                         results_ \o m.best_match, Append(logs, m.log))

\* TestProcessor.process(test_csv) with self.selector.selected = selected_.
\* [error, value, logs]
TesterOutcome(test_file, training_table, ideal_table, selected_) ==
    LET test_df == clean_data(ReadFrame(test_file))
        training == ReadFrame(training_table)
        ideal == ReadFrame(ideal_table)
        failed == [error |-> "DataError", value |-> <<>>, logs |-> <<>>]
    IN IF ~({"x", "y"} \subseteq test_df.columns) THEN failed
       ELSE IF selected_ = <<>> THEN failed
       ELSE LET loop == RowLoop(test_df, selected_, training, ideal, 1, <<>>, <<>>)
            IN IF loop.raised THEN failed
               ELSE [error |-> "none", value |-> loop.results, logs |-> loop.logs]

\* ---------------------------------------------------------------- database
\* A path pd.read_csv cannot read (no such file).
NoSuchFile == [exists |-> FALSE]

\* pd.read_csv(csv_file) raises.
ReadCsvRaises(file) == file = NoSuchFile

\* Variant: only the x column is validated.
TrainingCsvOkOnlyX(file) == "x" \in file.columns

\* read_csv succeeds and the columns the loader requires are there.
TrainingCsvOk(file) == {"x", "y1", "y2", "y3", "y4"} \subseteq file.columns

IdealCsvOk(file) == "x" \in file.columns

\* Variant: the handler goes on to the next step after a failure.
AfterStepContinue(next_step, error) == next_step

\* run_analysis after a step: `except FunctionAnalysisError` ends the run
\* with sys.exit(1); an exception of another class leaves run_analysis
\* uncaught; otherwise the next statement runs.
AfterStep(next_step, error) ==
    IF error \in {"DataError", "SelectionError"} THEN "exit"
    ELSE IF error # "none" THEN "crash"
    ELSE next_step

\* ------------------------------------------------------------------ inputs
TrainRow(x, a, b, c, d) ==
    ("x" :> x) @@ ("y1" :> a) @@ ("y2" :> b) @@ ("y3" :> c) @@ ("y4" :> d)

TrainColumns == {"x", "y1", "y2", "y3", "y4"}

\* The training CSV files: a grid of distinct x; a grid that repeats an x; a
\* file whose y3 column is text; a file with a missing value in its second
\* row; a file without the y4 column.
TrainingFiles ==
    { [columns |-> TrainColumns,
       data |-> <<TrainRow(1, 0, 2, 1, 0), TrainRow(2, 1, 2, 0, 0)>>],
      [columns |-> TrainColumns,
       data |-> <<TrainRow(1, 0, 0, 1, 2), TrainRow(1, 2, 0, 1, 0)>>],
      [columns |-> TrainColumns,
       data |-> <<TrainRow(1, 0, 2, Str, 0), TrainRow(2, 1, 2, Str, 0)>>],
      [columns |-> TrainColumns,
       data |-> <<TrainRow(1, 0, 2, 1, 0), TrainRow(2, 1, NaN, 0, 0),
                  TrainRow(3, 2, 2, 2, 2)>>],
      [columns |-> {"x", "y1", "y2", "y3"},
       data |-> <<("x" :> 1) @@ ("y1" :> 0) @@ ("y2" :> 2) @@ ("y3" :> 1)>>] }

\* The candidate CSV files: y1 and y2, y1 the better fit of the first
\* training file's y1; y1 and y3 equal, y2 absent; no y column at all; a
\* grid that repeats an x; three rows with a missing value in the last; a
\* grid 1, 3; a file without the x column.
IdealFiles ==
    { [columns |-> {"x", "y1", "y2"},
       data |-> <<("x" :> 1) @@ ("y1" :> 0) @@ ("y2" :> 2),
                  ("x" :> 2) @@ ("y1" :> 1) @@ ("y2" :> 2)>>],
      [columns |-> {"x", "y1", "y3"},
       data |-> <<("x" :> 1) @@ ("y1" :> 0) @@ ("y3" :> 0),
                  ("x" :> 2) @@ ("y1" :> 1) @@ ("y3" :> 1)>>],
      [columns |-> {"x"},
       data |-> <<("x" :> 1), ("x" :> 2)>>],
      [columns |-> {"x", "y1"},
       data |-> <<("x" :> 1) @@ ("y1" :> 0), ("x" :> 1) @@ ("y1" :> 1)>>],
      [columns |-> {"x", "y1", "y2"},
       data |-> <<("x" :> 1) @@ ("y1" :> 1) @@ ("y2" :> 0),
                  ("x" :> 2) @@ ("y1" :> 1) @@ ("y2" :> 2),
                  ("x" :> 3) @@ ("y1" :> 2) @@ ("y2" :> NaN)>>],
      [columns |-> {"x", "y1"},
       data |-> <<("x" :> 1) @@ ("y1" :> 0), ("x" :> 3) @@ ("y1" :> 2)>>],
      [columns |-> {"y1"},
       data |-> <<("y1" :> 0)>>] }

\* The rows of a test CSV: x in 1..2 and y in 0..MaxVal, or one of them
\* missing.
TestXs == {1, 2}

TestRows ==
    {("x" :> x) @@ ("y" :> y) : x \in TestXs, y \in 0..MaxVal}
    \cup {("x" :> NaN) @@ ("y" :> 0), ("x" :> 1) @@ ("y" :> NaN)}

\* The test CSV files: no row, one row or two rows (so that a row can repeat
\* an earlier one, and the order of two rows shows), and a file without the
\* y column.
TestFiles ==
    {[columns |-> {"x", "y"}, data |-> d] :
        d \in {<<>>} \cup {<<a>> : a \in TestRows}
                     \cup {<<a, b>> : a \in TestRows, b \in TestRows}}
    \cup {[columns |-> {"x"}, data |-> <<("x" :> 1)>>]}

\* Frames of at most MaxCleanRows rows given to clean_data directly.
MaxCleanRows == 3

RECURSIVE RowSeqs(_)
RowSeqs(n) ==
    IF n = 0 THEN {<<>>}
    ELSE RowSeqs(n - 1)
         \cup {Append(d, r) : d \in {q \in RowSeqs(n - 1) : Len(q) = n - 1},
                              r \in TestRows}

DirtyFiles == {[columns |-> {"x", "y"}, data |-> d] : d \in RowSeqs(MaxCleanRows)}

\* ------------------------------------------------------------------- state
VARIABLES
    db_training,   \* the table 'training'
    db_ideal,      \* the table 'ideal'
    db_results,    \* the table 'results'
    selected,      \* FunctionSelector.selected
    test_csv,      \* the test CSV file of the run
    call,          \* the last call made: [op, error]
    selection,     \* the mapping the last FunctionSelector.process returned
    results,       \* the list the last TestProcessor.process returned
    match_log,     \* _match_point's local values in that call, per row and pair
    test_df,       \* the frame clean_data returned in the last call that used it
    pc,            \* the statement run_analysis is at
    ran            \* the steps run_analysis has invoked, in order

vars == <<db_training, db_ideal, db_results, selected, test_csv, call,
          selection, results, match_log, test_df, pc, ran>>

\* SimpleFunctionAnalysis.__init__.  Database.__init__: create_all makes the
\* empty tables; _add_ideal_columns adds y1.. to 'ideal', or adds nothing
\* where conn.execute refuses a plain string (the except clause swallows it).
Constructed ==
    /\ db_training = [columns |-> {"id"} \cup TrainColumns, data |-> <<>>]
    /\ \E added \in {{}, {YName(i) : i \in 1..NumIdeal}} :
           db_ideal = [columns |-> {"id", "x"} \cup added, data |-> <<>>]
    /\ db_results = <<>>
    /\ selected = <<>>
    /\ call = [op |-> "init", error |-> "none"]
    /\ selection = <<>>
    /\ results = <<>>
    /\ match_log = <<>>
    /\ ran = <<>>

Init ==
    /\ Constructed
    /\ test_csv \in TestFiles
    /\ test_df = None
    /\ pc = "idle"

\* Database.load_training(csv_file)
Database_load_training(file) ==
    /\ IF ~ReadCsvRaises(file) /\ TrainingCsvOk(file)
       THEN /\ db_training' = file
            /\ call' = [op |-> "load_training", error |-> "none"]
       ELSE /\ db_training' = db_training
            /\ call' = [op |-> "load_training", error |-> "DataError"]
    /\ selection' = <<>>
    /\ results' = <<>>
    /\ match_log' = <<>>
    /\ test_df' = None
    /\ UNCHANGED <<db_ideal, db_results, selected, test_csv>>

\* Database.load_ideal(csv_file)
Database_load_ideal(file) ==
    /\ IF ~ReadCsvRaises(file) /\ IdealCsvOk(file)
       THEN /\ db_ideal' = file
            /\ call' = [op |-> "load_ideal", error |-> "none"]
       ELSE /\ db_ideal' = db_ideal
            /\ call' = [op |-> "load_ideal", error |-> "DataError"]
    /\ selection' = <<>>
    /\ results' = <<>>
    /\ match_log' = <<>>
    /\ test_df' = None
    /\ UNCHANGED <<db_training, db_results, selected, test_csv>>

\* FunctionSelector.process()
FunctionSelector_process ==
    LET out == SelectorOutcome(db_training, db_ideal, selected)
    IN /\ selected' = out.selected
       /\ selection' = out.value
       /\ call' = [op |-> "select", error |-> out.error]
       /\ results' = <<>>
       /\ match_log' = <<>>
       /\ test_df' = None
       /\ UNCHANGED <<db_training, db_ideal, db_results, test_csv>>

\* TestProcessor.process(test_csv)
TestProcessor_process ==
    LET out == TesterOutcome(test_csv, db_training, db_ideal, selected)
    IN /\ results' = out.value
       /\ match_log' = out.logs
       /\ call' = [op |-> "classify", error |-> out.error]
       /\ selection' = <<>>
       /\ test_df' = clean_data(ReadFrame(test_csv))
       /\ UNCHANGED <<db_training, db_ideal, db_results, selected, test_csv>>

\* The operations called one at a time, in any order.
load_training ==
    \E file \in TrainingFiles \cup {NoSuchFile} :
        Database_load_training(file) /\ UNCHANGED <<pc, ran>>

load_ideal ==
    \E file \in IdealFiles \cup {NoSuchFile} :
        Database_load_ideal(file) /\ UNCHANGED <<pc, ran>>

selector_process == FunctionSelector_process /\ UNCHANGED <<pc, ran>>

tester_process == TestProcessor_process /\ UNCHANGED <<pc, ran>>

Next == load_training \/ load_ideal \/ selector_process \/ tester_process

Spec == Init /\ [][Next]_vars

\* clean_data applied on its own: to frames read from DirtyFiles, and again
\* to what it returned.
CleanInit ==
    /\ Constructed
    /\ test_csv \in DirtyFiles
    /\ test_df = ReadFrame(test_csv)
    /\ pc = "idle"

BaseProcessor_clean_data ==
    /\ test_df' = clean_data(test_df)
    /\ call' = [op |-> "clean_data", error |-> "none"]
    /\ UNCHANGED <<db_training, db_ideal, db_results, selected, test_csv,
                   selection, results, match_log, pc, ran>>

CleanNext == BaseProcessor_clean_data

SpecClean == CleanInit /\ [][CleanNext]_vars

\* SimpleFunctionAnalysis.run_analysis, statement by statement, on a fresh
\* system.
RunInit ==
    /\ Constructed
    /\ test_csv \in TestFiles
    /\ test_df = None
    /\ pc = "load_training"

\* self.db.load_training(training_csv)
run_load_training ==
    /\ pc = "load_training"
    /\ \E file \in TrainingFiles \cup {NoSuchFile} : Database_load_training(file)
    /\ ran' = Append(ran, "load_training")
    /\ pc' = AfterStep("load_ideal", call'.error)

\* self.db.load_ideal(ideal_csv)
run_load_ideal ==
    /\ pc = "load_ideal"
    /\ \E file \in IdealFiles \cup {NoSuchFile} : Database_load_ideal(file)
    /\ ran' = Append(ran, "load_ideal")
    /\ pc' = AfterStep("select", call'.error)

\* selected = self.selector.process()
run_select ==
    /\ pc = "select"
    /\ FunctionSelector_process
    /\ ran' = Append(ran, "select")
    /\ pc' = AfterStep("classify", call'.error)

\* results = self.tester.process(test_csv)
run_classify ==
    /\ pc = "classify"
    /\ TestProcessor_process
    /\ ran' = Append(ran, "classify")
    /\ pc' = AfterStep("save_results", call'.error)

\* self.db.save_results(results): the list replaces the table 'results'; for
\* an empty list the frame has no column, and to_sql either writes the empty
\* table or raises the driver's error, which is no FunctionAnalysisError.
run_save_results ==
    /\ pc = "save_results"
    /\ \E error \in IF results = <<>> THEN {"none", "OperationalError"} ELSE {"none"} :
           /\ call' = [op |-> "save_results", error |-> error]
           /\ db_results' = IF error = "none" THEN results ELSE db_results
    /\ ran' = Append(ran, "save_results")
    /\ pc' = AfterStep("create_plots", call'.error)
    /\ UNCHANGED <<db_training, db_ideal, selected, test_csv, selection, results,
                   match_log, test_df>>

\* self.visualizer.create_plots(selected, output_html): reads the three
\* tables and writes the HTML file; it changes nothing of the system.
run_create_plots ==
    /\ pc = "create_plots"
    /\ call' = [op |-> "create_plots", error |-> "none"]
    /\ ran' = Append(ran, "create_plots")
    /\ pc' = AfterStep("done", call'.error)
    /\ UNCHANGED <<db_training, db_ideal, db_results, selected, test_csv, selection,
                   results, match_log, test_df>>

RunNext ==
    \/ run_load_training
    \/ run_load_ideal
    \/ run_select
    \/ run_classify
    \/ run_save_results
    \/ run_create_plots

SpecRun == RunInit /\ [][RunNext]_vars

\* ================================================================ claims
\* The candidate identifiers present in a library.
Present(table) == {i \in 1..NumIdeal : YName(i) \in table.columns}

\* Every cell of the reference columns is a number or missing.
NumericTraining(table) ==
    \A k \in 1..Len(table.data) : \A c \in {"y1", "y2", "y3", "y4"} :
        table.data[k][c] # Str

\* error(r, c) = sum_i (r.y[i] - c.y[i])^2 over the matching-index samples
\* of the cleaned tables.
ErrorOf(r, c) ==
    SquaredError(clean_data(ReadFrame(db_training)), clean_data(ReadFrame(db_ideal)),
                 r, YName(c))

\* The x column of a stored table.
XGrid(table) == [k \in 1..Len(table.data) |-> table.data[k]["x"]]

\* The candidate library is aligned with the reference curves: same row
\* count and x grid.
Aligned == XGrid(db_training) = XGrid(db_ideal)

\* FunctionSelector.process has just returned a mapping computed from
\* loaded reference curves and an aligned library with at least one candidate.
Selected ==
    /\ call = [op |-> "select", error |-> "none"]
    /\ Present(db_ideal) # {}
    /\ db_training.data # <<>>
    /\ Aligned

\* C1: for each reference curve, process selects a present candidate of
\* minimal squared error: no present candidate has a strictly smaller error.
C1_MinimalError ==
    Selected =>
        \A r \in DictKeys(selection) :
            /\ DictValue(selection, r) \in Present(db_ideal)
            /\ \A c \in Present(db_ideal) :
                   ErrorOf(r, DictValue(selection, r)) <= ErrorOf(r, c)

\* C3: whenever the library holds at least one of the columns y1.. (and the
\* reference columns are numeric), process returns a mapping with exactly the
\* keys y1, y2, y3, y4, each mapped to a candidate present in the library.
C3_FourPresentCandidates ==
    (/\ call.op = "select"
     /\ Present(db_ideal) # {}
     /\ NumericTraining(db_training)) =>
        /\ call.error = "none"
        /\ Len(selection) = 4
        /\ DictKeys(selection) = {"y1", "y2", "y3", "y4"}
        /\ \A k \in 1..Len(selection) : selection[k][2] \in Present(db_ideal)

\* C3 witness: a selection over a library with rows that lacks some
\* identifier below its last one.
C3_Witness ==
    /\ Selected
    /\ db_ideal.data # <<>>
    /\ db_training.data # <<>>
    /\ \E i \in Present(db_ideal) : \E j \in 1..(i - 1) : j \notin Present(db_ideal)

\* C4: when several present candidates have exactly equal minimal squared
\* error against a reference curve, the lowest identifier is selected.
C4_TieLowestIdentifier ==
    Selected =>
        \A r \in DictKeys(selection) :
            LET best == {c \in Present(db_ideal) :
                            \A d \in Present(db_ideal) : ErrorOf(r, c) <= ErrorOf(r, d)}
            IN Cardinality(best) >= 2 =>
                   /\ DictValue(selection, r) \in best
                   /\ \A c \in best : DictValue(selection, r) <= c

\* C9: every call of process made while the library holds none of the
\* columns y1.. fails with SelectionError and returns no mapping.
C9_EmptyLibraryFails ==
    (call.op = "select" /\ Present(db_ideal) = {}) =>
        (call.error = "SelectionError" /\ selection = <<>>)

\* ------------------------------------------------------ classifier claims
\* A test row is malformed when its x or its y is missing.
Malformed(row) == row["x"] = NaN \/ row["y"] = NaN

\* The observations of a test file that are classified: the well-formed
\* rows, each distinct row once, at its first occurrence, in input order.
RECURSIVE KeptFrom(_, _)
KeptFrom(data, k) ==
    IF k > Len(data) THEN <<>>
    ELSE (IF ~Malformed(data[k]) /\ \A j \in 1..(k - 1) : data[j] # data[k]
          THEN <<data[k]>> ELSE <<>>) \o KeptFrom(data, k + 1)

Kept == IF {"x", "y"} \subseteq test_csv.columns THEN KeptFrom(test_csv.data, 1) ELSE <<>>

\* TestProcessor.process has just returned its result list.
Classified == call = [op |-> "classify", error |-> "none"]

\* deviation <= threshold for a pair, threshold = sqrt(2) * train_deviation.
Accepted(e) ==
    /\ e.deviation # NaN
    /\ e.train_deviation # NaN
    /\ e.deviation * e.deviation <= 2 * e.train_deviation * e.train_deviation

\* The (x, y) of a sequence of rows or records.
XYs(q) == [k \in 1..Len(q) |-> <<q[k].x, q[k].y>>]

\* The records of the result list that belong to a row.
RecordsOf(row) == {j \in 1..Len(results) : results[j].x = row.x /\ results[j].y = row.y}

\* Neither stored table has a missing value.
NoMissing ==
    /\ \A k \in 1..Len(db_training.data) : \A c \in DOMAIN db_training.data[k] :
           db_training.data[k][c] # NaN
    /\ \A k \in 1..Len(db_ideal.data) : \A c \in DOMAIN db_ideal.data[k] :
           db_ideal.data[k][c] # NaN

Max(S) == CHOOSE m \in S : \A n \in S : n <= m

\* max_i |r.y[i] - c.y[i]| over the shared samples of an aligned pair.
MaxPointwiseDeviation(r, c) ==
    Max({Abs(db_training.data[i][r] - db_ideal.data[i][c]) :
            i \in 1..Len(db_training.data)})

\* The x values of the reference grid are pairwise distinct.
DistinctGrid ==
    \A i, j \in 1..Len(db_training.data) :
        db_training.data[i]["x"] = db_training.data[j]["x"] => i = j

\* C2: for every test observation and every selected pair (r, c), the
\* threshold used is sqrt(2) times the maximum over all shared samples of
\* |r.y[i] - c.y[i]|, hence the same for every observation.
C2_ThresholdIsMaxDeviation ==
    (Classified /\ Aligned /\ DistinctGrid /\ NoMissing) =>
        \A k \in 1..Len(match_log) : \A j \in 1..Len(match_log[k]) :
            match_log[k][j].train_deviation
                = MaxPointwiseDeviation(match_log[k][j].train_func,
                                        match_log[k][j].ideal_col)

\* The y of candidate column col at the first of the library's samples whose
\* x is nearest to x.
NearestCandidateY(x, col) ==
    LET near == {i \in 1..Len(db_ideal.data) : db_ideal.data[i]["x"] # NaN}
        i == CHOOSE i \in near : \A n \in near :
                 \/ Abs(db_ideal.data[i]["x"] - x) < Abs(db_ideal.data[n]["x"] - x)
                 \/ /\ Abs(db_ideal.data[i]["x"] - x) = Abs(db_ideal.data[n]["x"] - x)
                    /\ i <= n
    IN db_ideal.data[i][col]

\* C5: with deviation = |test y - candidate y at the nearest candidate x|, a
\* record is returned for an observation iff some pair has deviation <=
\* threshold, a deviation equal to the threshold included, and the record
\* never comes from a pair whose deviation exceeds its threshold.
C5_InclusiveThreshold ==
    Classified =>
        /\ Len(match_log) = Len(Kept)
        /\ \A k \in 1..Len(match_log) :
               /\ \A j \in 1..Len(match_log[k]) :
                      match_log[k][j].deviation
                          = AbsDiff(Kept[k].y,
                                    NearestCandidateY(Kept[k].x, match_log[k][j].ideal_col))
               /\ (RecordsOf(Kept[k]) # {})
                     <=> (\E j \in 1..Len(match_log[k]) : Accepted(match_log[k][j]))
               /\ \A n \in RecordsOf(Kept[k]) : \E j \in 1..Len(match_log[k]) :
                      /\ Accepted(match_log[k][j])
                      /\ match_log[k][j].ideal_col = results[n].ideal_function
                      /\ match_log[k][j].deviation = results[n].deviation

\* A pair whose deviation exceeds its threshold.
Exceeds(e) ==
    /\ e.deviation # NaN
    /\ e.train_deviation # NaN
    /\ e.deviation * e.deviation > 2 * e.train_deviation * e.train_deviation

\* C5 witness: one observation is recorded although its only accepting pairs
\* deviate by exactly their threshold, and another one, which exceeds the
\* threshold of every pair, is not recorded.
C5_Witness ==
    /\ Classified
    /\ \E k \in 1..Len(match_log) :
           /\ RecordsOf(Kept[k]) # {}
           /\ \A j \in 1..Len(match_log[k]) :
                  \/ Exceeds(match_log[k][j])
                  \/ /\ match_log[k][j].deviation = match_log[k][j].train_deviation
                     /\ match_log[k][j].deviation = 0
    /\ \E k \in 1..Len(match_log) :
           /\ RecordsOf(Kept[k]) = {}
           /\ \A j \in 1..Len(match_log[k]) : Exceeds(match_log[k][j])

\* The position of a reference identifier in the processing order y1..y4.
RefOrder(train_func) == CHOOSE k \in 1..Len(TrainCols) : TrainCols[k] = train_func

\* The record expected of one observation: the accepted pair of smallest
\* deviation, the earliest reference identifier among equal deviations.
BestRecord(row, log) ==
    LET A == {j \in 1..Len(log) : Accepted(log[j])}
    IN IF A = {} THEN <<>>
       ELSE LET j == CHOOSE j \in A : \A i \in A :
                        \/ log[j].deviation < log[i].deviation
                        \/ /\ log[j].deviation = log[i].deviation
                           /\ RefOrder(log[j].train_func) <= RefOrder(log[i].train_func)
            IN <<[x |-> row.x, y |-> row.y, ideal_function |-> log[j].ideal_col,
                  deviation |-> log[j].deviation]>>

RECURSIVE BestRecordsFrom(_)
BestRecordsFrom(k) ==
    IF k > Len(match_log) THEN <<>>
    ELSE BestRecord(Kept[k], match_log[k]) \o BestRecordsFrom(k + 1)

\* C6: the record of an observation is the accepted pair of smallest
\* deviation, the earliest-processed reference identifier winning an exact
\* tie, and carries the observation's x and y, that candidate's identifier
\* and that deviation.
C6_SmallestDeviationWins ==
    Classified => (Len(match_log) = Len(Kept) /\ results = BestRecordsFrom(1))

\* C6 witness: two accepted pairs with different candidates tie on the
\* deviation of a recorded observation.
C6_Witness ==
    /\ Classified
    /\ \E k \in 1..Len(match_log) : \E i, j \in 1..Len(match_log[k]) :
           /\ Accepted(match_log[k][i])
           /\ Accepted(match_log[k][j])
           /\ match_log[k][i].deviation = match_log[k][j].deviation
           /\ match_log[k][i].ideal_col # match_log[k][j].ideal_col
           /\ results # <<>>

\* The rows of `data`, from the k-th on, for which P holds.
RECURSIVE RowsWhere(_, _, _)
RowsWhere(data, P(_), k) ==
    IF k > Len(data) THEN <<>>
    ELSE (IF P(data[k]) THEN <<data[k]>> ELSE <<>>) \o RowsWhere(data, P, k + 1)

\* A row is accepted by at least one selected pair.
AcceptedRow(row) ==
    \E k \in 1..Len(match_log) :
        /\ Kept[k] = row
        /\ \E j \in 1..Len(match_log[k]) : Accepted(match_log[k][j])

\* C7 as stated: the result list holds, in input order, exactly one record
\* for every input row accepted by at least one pair, rows that repeat an
\* earlier (x, y) included.
C7_OneRecordPerInputRow ==
    (Classified /\ {"x", "y"} \subseteq test_csv.columns) =>
        /\ Len(match_log) = Len(Kept)
        /\ XYs(results) = XYs(RowsWhere(test_csv.data, AcceptedRow, 1))

\* Some kept observation makes _match_point raise for some selected pair.
SomePairRaises ==
    \E k \in 1..Len(Kept) : \E j \in 1..Len(selected) :
        PairRaises(Kept[k].x, selected[j], ReadFrame(db_training), ReadFrame(db_ideal))

\* C7 amended: the result list holds, in input order, exactly one record for
\* every distinct well-formed input row (its first occurrence) accepted by at
\* least one pair and none for the others; an observation with no accepted
\* pair is no error.
C7_OneRecordPerDistinctRow ==
    /\ Classified =>
           /\ Len(match_log) = Len(Kept)
           /\ XYs(results) = XYs(RowsWhere(Kept, AcceptedRow, 1))
    /\ (/\ call.op = "classify"
        /\ {"x", "y"} \subseteq test_csv.columns
        /\ selected # <<>>
        /\ ~SomePairRaises) => call.error = "none"

\* C7 witness: a file whose second row repeats the first, accepted, row and
\* a file of two distinct rows of which only the second is accepted.
C7_Witness ==
    /\ Classified
    /\ Len(test_csv.data) = 2
    /\ \/ /\ test_csv.data[1] = test_csv.data[2]
          /\ Len(results) = 1
       \/ /\ Len(Kept) = 2
          /\ Len(results) = 1
          /\ results[1].x = Kept[2].x
          /\ results[1].y = Kept[2].y

\* The selected pairs name candidates of the library and numeric reference
\* curves on a shared grid without missing values.
SharedGridSelection ==
    /\ {"x", "y"} \subseteq test_csv.columns
    /\ selected # <<>>
    /\ \A j \in 1..Len(selected) : selected[j][2] \in Present(db_ideal)
    /\ NumericTraining(db_training)
    /\ Aligned
    /\ NoMissing

\* The observation is the sample (x_i, r.y[i]), for some i, of the reference
\* curve r of the j-th selected pair.
SampleOf(row, j) ==
    \E i \in 1..Len(db_training.data) :
        /\ row.x = db_training.data[i]["x"]
        /\ row.y = db_training.data[i][selected[j][1]]

\* The test observations are samples of the selected reference curves.
SamplesClassified ==
    /\ call.op = "classify"
    /\ SharedGridSelection
    /\ \A k \in 1..Len(Kept) : \E j \in 1..Len(selected) : SampleOf(Kept[k], j)

\* Every observation is accepted by the pair of each reference curve it is a
\* sample of, and has a record.
ReflexivelyAccepted ==
    /\ call.error = "none"
    /\ Len(match_log) = Len(Kept)
    /\ \A k \in 1..Len(match_log) : \A j \in 1..Len(selected) :
           SampleOf(Kept[k], j) =>
               (Accepted(match_log[k][j]) /\ RecordsOf(Kept[k]) # {})

\* C8 as stated: on a shared x grid, classifying the samples of a reference
\* curve gives deviation <= threshold for its pair, and a record for each.
C8_ReflexiveAcceptance == SamplesClassified => ReflexivelyAccepted

\* C8 amended: the same on a shared grid of pairwise distinct x values.
C8_ReflexiveOnDistinctGrid ==
    (SamplesClassified /\ DistinctGrid) => ReflexivelyAccepted

\* C8 witness: two samples of reference curves are classified on a distinct
\* shared grid, one of a curve that differs from its candidate there.
C8_Witness ==
    /\ SamplesClassified
    /\ DistinctGrid
    /\ Len(Kept) = 2
    /\ \E k \in 1..Len(match_log) : \E j \in 1..Len(selected) :
           /\ SampleOf(Kept[k], j)
           /\ match_log[k][j].deviation > 0
           /\ match_log[k][j].deviation = match_log[k][j].train_deviation

\* The test file has a row whose x or y is missing.
HasMalformedRow ==
    /\ {"x", "y"} \subseteq test_csv.columns
    /\ \E k \in 1..Len(test_csv.data) : Malformed(test_csv.data[k])

WellFormedRow(row) == ~Malformed(row)

\* The test file without its malformed rows.
WellFormedRest ==
    [columns |-> test_csv.columns, data |-> RowsWhere(test_csv.data, WellFormedRow, 1)]

\* C10 as stated: a malformed row makes process fail for the whole batch
\* with DataError, without results; the rows that would be recorded without
\* it are not returned.
C10_MalformedRowFailsBatch ==
    (/\ call.op = "classify"
     /\ HasMalformedRow
     /\ TesterOutcome(WellFormedRest, db_training, db_ideal, selected).value # <<>>) =>
        (call.error = "DataError" /\ results = <<>>)

\* C10 amended: a malformed row is dropped: process ends as it does on the
\* file without its malformed rows, returning the results of the other rows.
C10_MalformedRowDropped ==
    (call.op = "classify" /\ HasMalformedRow) =>
        LET out == TesterOutcome(WellFormedRest, db_training, db_ideal, selected)
        IN call.error = out.error /\ results = out.value

\* C10 witness: a file with a malformed row and an accepted row is
\* classified without error.
C10_Witness ==
    /\ Classified
    /\ HasMalformedRow
    /\ results # <<>>

\* -------------------------------------------------------------------- C11
\* A file the loaders could read: it has columns at all.
Readable(table) == "columns" \in DOMAIN table

\* The step is a call of one of the loaders that raised DataError.
FailedLoad ==
    /\ call'.op \in {"load_training", "load_ideal"}
    /\ call'.error = "DataError"

\* C11: load_training raises DataError for a file it cannot read or that
\* lacks one of x, y1..y4, and load_ideal for a file it cannot read or that
\* lacks x (a loader that returns has stored its file, so the stored file was
\* readable and had the columns); a failing call leaves both stored tables
\* as they were.
C11_FailedLoadKeepsTables ==
    [][/\ (call'.op = "load_training" /\ call'.error = "none")
              => /\ Readable(db_training')
                 /\ {"x", "y1", "y2", "y3", "y4"} \subseteq db_training'.columns
       /\ (call'.op = "load_ideal" /\ call'.error = "none")
              => (Readable(db_ideal') /\ "x" \in db_ideal'.columns)
       /\ FailedLoad => (db_training' = db_training /\ db_ideal' = db_ideal)]_vars

\* A loader failed after both tables had been loaded with rows, and they are
\* still there.
C11_Witness ==
    /\ call = [op |-> "load_training", error |-> "DataError"]
    /\ db_training.data # <<>>
    /\ db_ideal.data # <<>>

\* -------------------------------------------------------------------- C12
\* The positions of the input rows clean_data is to keep: no missing value,
\* and no equal row before it.
KeptPositions(data) ==
    {k \in 1..Len(data) :
        /\ \A c \in DOMAIN data[k] : data[k][c] # NaN
        /\ \A j \in 1..(k - 1) : data[j] # data[k]}

\* C12: clean_data returns exactly the input rows without a missing value,
\* each distinct row once, at its first occurrence and in input order (so no
\* output row has a missing value, no two are equal, each is an input row);
\* clean_data applied to its own output returns the same table.
C12_CleanDataKeepsFirstComplete ==
    call.op = "clean_data" =>
        LET data == test_csv.data
            out == test_df.rows
        IN /\ test_df.columns = test_csv.columns
           /\ Len(out) = Cardinality(KeptPositions(data))
           /\ \A i \in 1..Len(out) :
                  /\ out[i].idx + 1 \in KeptPositions(data)
                  /\ out[i].cells = data[out[i].idx + 1]
                  /\ \A c \in DOMAIN out[i].cells : out[i].cells[c] # NaN
           /\ \A i, j \in 1..Len(out) :
                  i < j => (out[i].idx < out[j].idx /\ out[i].cells # out[j].cells)
           /\ clean_data(test_df) = test_df

\* clean_data has been applied to three rows, the second with a missing
\* value and the third a repetition of the first, and one row is left.
C12_Witness ==
    /\ call.op = "clean_data"
    /\ Len(test_csv.data) = 3
    /\ test_csv.data[2]["y"] = NaN
    /\ test_csv.data[3] = test_csv.data[1]
    /\ Len(test_df.rows) = 1

\* -------------------------------------------------------------------- C13
\* The call made just before the step left no complete Selection: nothing
\* has been called yet, or FunctionSelector.process has just raised.
NoCompleteSelection ==
    \/ call.op = "init"
    \/ (call.op = "select" /\ call.error = "SelectionError")

\* C13: TestProcessor.process called when the most recent
\* FunctionSelector.process did not return (never called, or raised
\* SelectionError, also after assigning some reference curves) raises
\* DataError and so produces no results: no results are computed from a
\* Selection with fewer than 4 entries.
C13_NoResultsAfterFailedSelection ==
    [][(NoCompleteSelection /\ call'.op = "classify") => results' = <<>>]_vars

\* -------------------------------------------------------------------- C14
\* The steps of run_analysis, in the order of the code.
RunOrder ==
    <<"load_training", "load_ideal", "select", "classify", "save_results",
      "create_plots">>

\* The last step raised DataError or SelectionError.
StepFailed == call.error \in {"DataError", "SelectionError"}

\* C14: run_analysis runs load training, load ideal, select, classify, save
\* results, visualize in that order; a DataError or SelectionError of a step
\* halts the run, the failing step being the last one run: after a failed
\* selection the classifier has not run, after a failed classification
\* save_results has not run and nothing is persisted.
C14_FailureHaltsPipeline ==
    /\ ran = SubSeq(RunOrder, 1, Len(ran))
    /\ StepFailed =>
           /\ pc = "exit"
           /\ ran # <<>>
           /\ ran[Len(ran)] = call.op
    /\ pc = "exit" => StepFailed
    /\ (StepFailed /\ call.op = "select") =>
           (\A k \in 1..Len(ran) : ran[k] # "classify") /\ results = <<>>
    /\ (StepFailed /\ call.op = "classify") =>
           (\A k \in 1..Len(ran) : ran[k] # "save_results") /\ db_results = <<>>

\* The classification step failed after the first three steps had run, and
\* the run has ended.
C14_Witness ==
    /\ pc = "exit"
    /\ call = [op |-> "classify", error |-> "DataError"]
    /\ ran = <<"load_training", "load_ideal", "select", "classify">>
====
